---- MODULE Spec2Model ----
(***************************************************************************)
(* Deduplication and multi-sink persistence of NEWS-READER-ELITE.          *)
(*                                                                         *)
(* Durable state: the relational table `articles` (url UNIQUE), the        *)
(* document-store mirror and the JSON cache files under outputs/.          *)
(* Operations: loading the existing keys, deduplicate_articles             *)
(* (news_api_settings.py) and save_articles_simple with its three sinks    *)
(* (news_postgres_utils.py, news_mongo_utils.py).                          *)
(* Scheduling: the periodic workers auto_api_loop and auto_rss_loop, the   *)
(* start, stop and manual collection handlers (app/main.py) and the        *)
(* pipelines they run (news_api_collector.py, news_rss_collector.py).      *)
(***************************************************************************)
EXTENDS Integers, Sequences, FiniteSets, TLC

VARIABLES
    table,      \* rows of the relational table articles
    mirror,     \* documents of the mirror collection
    files,      \* cache file name -> Missing | Corrupt | JSON array of articles
    op,         \* the operation that ran last
    arg,        \* its article list
    env,        \* what the outside world did during it (store, disk, mirror)
    ret,        \* what it returned
    prev,       \* the persist call before this one, when it saved a single article
    auto_thread,            \* family -> 0 (None) or the thread started last
    auto_stop_event,        \* family -> the stop event is set
    auto_new_count,         \* family -> articles counted as new in this session
    last_collection_time,   \* family -> 0 (None) or 1 (the time of a collection)
    error_occurred,         \* family -> the error flag
    worker,     \* family, thread -> position of the periodic loop it runs
    handler,    \* the request the event loop is serving
    pipe,       \* runner -> position and locals of the pipeline it is running
    response    \* what the request served last returned

Sched == <<auto_thread, auto_stop_event, auto_new_count, last_collection_time,
           error_occurred, worker, handler, pipe, response>>

vars == <<table, mirror, files, op, arg, env, ret, prev, Sched>>

\* ------------------------------------------------------------------ bounds

MaxBatch == 2       \* longest article list handed to one call
MaxFile == 2        \* longest cache file a persist call may still extend

MaxInterval == 2    \* longest sleep between two periodic runs, in seconds
MaxFetch == 1       \* most articles one fetch of a pipeline returns
MaxThreads == 2     \* most worker threads of one family the model can hold
MaxSources == 2     \* most feed sources one run of the feed family reads
MaxTitle == 3       \* longest title handed to normalize_title alone
MaxQueue == 3       \* most entries the log queue holds before the pushes stop

\* --------------------------------------------------- scheduler at rest

Families == {"api", "rss"}

Threads == 1..MaxThreads

\* the event loop, which runs the request handlers one at a time
EventLoop == <<"handler", 0>>

\* whoever can run a pipeline: the worker threads and the event loop
Runners == (Families \X Threads) \cup {EventLoop}

\* stage: where the pipeline stands; articles: the articles it is saving;
\* existing: the array it read from its cache file; inserted: rows it inserted
NoPipe == [stage |-> "none", articles |-> <<>>, existing |-> <<>>, inserted |-> 0]

WorkerOff == [pc |-> "off", interval |-> 0, i |-> 0]

HandlerIdle == [pc |-> "idle", family |-> "none", via |-> "none"]

NoResponse == [request |-> "none", success |-> FALSE]

\* app/main.py as imported: no thread, events clear, counters zero
SchedInit ==
    /\ auto_thread = [f \in Families |-> 0]
    /\ auto_stop_event = [f \in Families |-> FALSE]
    /\ auto_new_count = [f \in Families |-> 0]
    /\ last_collection_time = [f \in Families |-> 0]
    /\ error_occurred = [f \in Families |-> FALSE]
    /\ worker = [f \in Families |-> [t \in Threads |-> WorkerOff]]
    /\ handler = HandlerIdle
    /\ pipe = [r \in Runners |-> NoPipe]
    /\ response = NoResponse

\* ------------------------------------------------------------ characters

\* Python None, as article.get('title') returns it for a null field
Null == <<"None">>

Chars == {"a", "b", "A", "!", " "}

\* str.lower()
Lower(c) == IF c = "A" THEN "a" ELSE c

\* the regex class \w
IsWord(c) == c \in {"a", "b", "A"}

\* the regex class \s
IsSpace(c) == c = " "

\* Python truthiness of an optional string: None and '' are false
Truthy(s) == s # Null /\ s # <<>>

\* re.sub(r'\s+', ' ', s): every run of whitespace becomes one space
RECURSIVE CollapseSpaces(_)
CollapseSpaces(s) ==
    IF s = <<>> THEN <<>>
    ELSE IF Len(s) >= 2 /\ IsSpace(s[1]) /\ IsSpace(s[2]) THEN CollapseSpaces(Tail(s))
    ELSE <<IF IsSpace(s[1]) THEN " " ELSE s[1]>> \o CollapseSpaces(Tail(s))

\* str.strip()
RECURSIVE Strip(_)
Strip(s) ==
    IF s = <<>> THEN <<>>
    ELSE IF IsSpace(s[1]) THEN Strip(Tail(s))
    ELSE IF IsSpace(s[Len(s)]) THEN Strip(SubSeq(s, 1, Len(s) - 1))
    ELSE s

\* re.sub(r'[^\w\s]', '', s)
KeepWordAndSpace(c) == IsWord(c) \/ IsSpace(c)

\* the three steps in another order: whitespace collapsed and stripped
\* before the punctuation is removed
normalize_title_strips_first(title) ==
    IF ~Truthy(title) THEN <<>>
    ELSE LET lowered == [i \in 1..Len(title) |-> Lower(title[i])]
         IN  SelectSeq(Strip(CollapseSpaces(lowered)), KeepWordAndSpace)

normalize_title(title) ==
    IF ~Truthy(title) THEN <<>>
    ELSE LET lowered == [i \in 1..Len(title) |-> Lower(title[i])]
             normalized == SelectSeq(lowered, KeepWordAndSpace)
         IN  Strip(CollapseSpaces(normalized))

\* ------------------------------------------------------------- articles

Urls == {"", "u1", "u2"}

Titles == {<<>>, Null, <<"!">>, <<"A">>, <<" ", "a", "!">>, <<"b">>}

Art(u, t) == [url |-> u, title |-> t]

Articles == {Art(u, t) : u \in Urls, t \in Titles}

SeqsUpTo(S, n) == UNION {[1..k -> S] : k \in 0..n}

Batches == SeqsUpTo(Articles, MaxBatch)

\* --------------------------------------------------------------- files

\* a file that does not exist, and one whose text json.load rejects; both are
\* written as one-entry arrays no provider can produce, so that any two file
\* contents compare
Missing == <<[url |-> "(no file)", title |-> <<>>]>>
Corrupt == <<[url |-> "(not JSON)", title |-> <<>>]>>

NEWS_FILE_RSS == "outputs/01_rss_news.json"

\* the list json_files of get_all_existing_articles
json_files ==
    {"outputs/02_newsapi_ai.json", "outputs/03_thenewsapi.json",
     "outputs/04_newsdata.json", "outputs/05_tiingo.json"}

CacheFiles == json_files \cup {NEWS_FILE_RSS}

IsList(c) == c # Missing /\ c # Corrupt

NoKeys == [titles |-> {}, urls |-> {}]

\* the body of the try block of get_all_existing_articles for one file
FileKeys(c) ==
    IF ~IsList(c) THEN NoKeys
    ELSE [titles |-> {normalize_title(c[i].title) : i \in {j \in 1..Len(c) : Truthy(c[j].title)}},
          urls   |-> {c[i].url : i \in {j \in 1..Len(c) : c[j].url # ""}}]

\* get_all_existing_articles with the try/except around the file loop, not in it
get_all_existing_articles_try_outside ==
    IF \E f \in json_files : files[f] = Corrupt
    THEN [titles |-> {}, urls |-> {}, raised |-> TRUE]
    ELSE [titles |-> UNION {FileKeys(files[f]).titles : f \in json_files},
          urls   |-> UNION {FileKeys(files[f]).urls : f \in json_files},
          raised |-> FALSE]

get_all_existing_articles ==
    [titles |-> UNION {FileKeys(files[f]).titles : f \in json_files},
     urls   |-> UNION {FileKeys(files[f]).urls : f \in json_files},
     raised |-> FALSE]

\* ------------------------------------------------------ relational store

PgModes == {"up", "down", "error"}

\* news_db_utils.get_db_connection: None when connecting fails
get_db_connection(pg) == IF pg = "down" THEN "None" ELSE "connection"

get_db_existing_articles(pg) ==
    IF get_db_connection(pg) = "None" THEN [titles |-> {}, urls |-> {}, raised |-> FALSE]
    ELSE IF pg = "error" THEN [titles |-> {}, urls |-> {}, raised |-> FALSE]
    ELSE [titles |-> {normalize_title(r.title) : r \in {x \in table : Truthy(x.title)}},
          urls   |-> {r.url : r \in {x \in table : x.url # ""}},
          raised |-> FALSE]

\* lines 88-94 of deduplicate_articles: the keys of the files, then those of the table
load_existing_keys(pg) ==
    LET fk == get_all_existing_articles
        dk == get_db_existing_articles(pg)
    IN  [titles |-> fk.titles \cup dk.titles,
         urls   |-> fk.urls \cup dk.urls,
         raised |-> fk.raised \/ dk.raised]

\* ---------------------------------------------------------- deduplicate

\* is_duplicate without the check against the urls seen earlier in the batch
is_duplicate_forgets_seen_urls(url, normalized_title, existing_titles, existing_urls, seen_titles, seen_urls) ==
    \/ url \in existing_urls
    \/ normalized_title \in existing_titles \/ normalized_title \in seen_titles

\* is_duplicate without the check against the titles seen earlier in the batch
is_duplicate_forgets_seen_titles(url, normalized_title, existing_titles, existing_urls, seen_titles, seen_urls) ==
    \/ url \in existing_urls \/ url \in seen_urls
    \/ normalized_title \in existing_titles

\* is_duplicate without the check against the urls already stored
is_duplicate_forgets_existing_urls(url, normalized_title, existing_titles, existing_urls, seen_titles, seen_urls) ==
    \/ url \in seen_urls
    \/ normalized_title \in existing_titles \/ normalized_title \in seen_titles

is_duplicate(url, normalized_title, existing_titles, existing_urls, seen_titles, seen_urls) ==
    \/ url \in existing_urls \/ url \in seen_urls
    \/ normalized_title \in existing_titles \/ normalized_title \in seen_titles

RECURSIVE DedupLoop(_, _, _, _, _)
DedupLoop(articles, i, existing_titles, existing_urls, acc) ==
    IF i > Len(articles) THEN acc
    ELSE LET url == articles[i].url
             normalized_title == normalize_title(articles[i].title)
         IN  DedupLoop(articles, i + 1, existing_titles, existing_urls,
                 IF is_duplicate(url, normalized_title, existing_titles, existing_urls,
                                 acc.seen_titles, acc.seen_urls)
                 THEN [acc EXCEPT !.duplicate_count = @ + 1]
                 ELSE [acc EXCEPT !.kept = @ \cup {i},
                                  !.seen_titles = @ \cup {normalized_title},
                                  !.seen_urls = @ \cup {url}])

RECURSIVE Pick(_, _, _)
Pick(articles, kept, i) ==
    IF i > Len(articles) THEN <<>>
    ELSE (IF i \in kept THEN <<articles[i]>> ELSE <<>>) \o Pick(articles, kept, i + 1)

\* deduplicate_articles that hands back the survivors with their titles
\* normalized
deduplicate_articles_normalizes_survivors(articles, pg) ==
    LET keys == load_existing_keys(pg)
        acc == DedupLoop(articles, 1, keys.titles, keys.urls,
                   [kept |-> {}, seen_titles |-> {}, seen_urls |-> {},
                    duplicate_count |-> 0])
        picked == Pick(articles, acc.kept, 1)
    IN  [unique |-> [k \in 1..Len(picked) |->
                        [picked[k] EXCEPT !.title = normalize_title(@)]],
         duplicate_count |-> acc.duplicate_count,
         kept |-> acc.kept,
         existing_titles |-> keys.titles, existing_urls |-> keys.urls,
         raised |-> keys.raised]

\* kept: the positions of the input that went to unique_articles
deduplicate_articles(articles, pg) ==
    IF articles = <<>>
    THEN [unique |-> <<>>, duplicate_count |-> 0, kept |-> {},
          existing_titles |-> {}, existing_urls |-> {}, raised |-> FALSE]
    ELSE LET keys == load_existing_keys(pg)
             acc == DedupLoop(articles, 1, keys.titles, keys.urls,
                        [kept |-> {}, seen_titles |-> {}, seen_urls |-> {},
                         duplicate_count |-> 0])
         IN  [unique |-> Pick(articles, acc.kept, 1),
              duplicate_count |-> acc.duplicate_count,
              kept |-> acc.kept,
              existing_titles |-> keys.titles, existing_urls |-> keys.urls,
              raised |-> keys.raised]

\* ------------------------------------------------------------- actions

Stores == <<table, mirror, files>>

\* no single-article persist call came before
NoCall == [article |-> Art("", <<>>), pg_ok |-> FALSE, mongo_ok |-> FALSE,
           db_count |-> 0, mongo_count |-> 0, fresh_db |-> FALSE, fresh_mirror |-> FALSE]

LoadKeys ==
    /\ op = "idle"
    /\ \E pg \in PgModes :
        /\ op' = "load"
        /\ arg' = <<>>
        /\ env' = [pg |-> pg]
        /\ ret' = load_existing_keys(pg)
        /\ UNCHANGED <<Stores, prev, Sched>>

Deduplicate ==
    /\ op = "idle"
    /\ \E articles \in Batches, pg \in {"up", "down"} :
        /\ op' = "dedup"
        /\ arg' = articles
        /\ env' = [pg |-> pg]
        /\ ret' = deduplicate_articles(articles, pg)
        /\ UNCHANGED <<Stores, prev, Sched>>

\* ------------------------------------------- durable states of SpecDedup

SeedRows == {Art("u1", <<"A">>), Art("u2", <<"b">>)}

SeedContents == {Corrupt, <<Art("u1", <<"b">>)>>, <<Art("u2", <<" ", "a", "!">>)>>}

InitDedup ==
    /\ table \in SUBSET SeedRows
    /\ mirror = table
    /\ \E f \in CacheFiles, c \in SeedContents, d \in {Missing, Corrupt} :
           files = [g \in CacheFiles |->
                       IF g = f THEN c
                       ELSE IF g = "outputs/05_tiingo.json" THEN d ELSE Missing]
    /\ op = "idle"
    /\ arg = <<>>
    /\ env = [pg |-> "up"]
    /\ ret = [raised |-> FALSE]
    /\ prev = NoCall
    /\ SchedInit

NextDedup == LoadKeys \/ Deduplicate

SpecDedup == InitDedup /\ [][NextDedup]_vars

\* ------------------------------------------------------ multi-sink writer

FsModes == {"ok", "dump_error"}

MongoModes == {"up", "down", "op_failure", "conn_lost"}

\* news_postgres_utils.get_db_connection: None on psycopg.OperationalError
pg_get_db_connection(pg) == IF pg = "down" THEN "None" ELSE "connection"

UrlsOf(rows) == {r.url : r \in rows}

\* INSERT ... ON CONFLICT (url) DO UPDATE: the row is replaced and RETURNING id
\* yields a row, so the article counts as inserted
insert_row_do_update(rows, article) ==
    [rows |-> {r \in rows : r.url # article.url} \cup {article}, inserted |-> TRUE]

\* INSERT into a table without the UNIQUE constraint on url
insert_row_unconstrained(rows, article) ==
    [rows |-> rows \cup {article}, inserted |-> TRUE]

\* INSERT ... ON CONFLICT (url) DO NOTHING RETURNING id, and the fetchone() test
insert_row(rows, article) ==
    IF article.url \in UrlsOf(rows)
    THEN [rows |-> rows, inserted |-> FALSE]
    ELSE [rows |-> rows \cup {article}, inserted |-> TRUE]

RECURSIVE InsertLoop(_, _, _)
InsertLoop(articles, i, acc) ==
    IF i > Len(articles) THEN acc
    ELSE LET r == insert_row(acc.rows, articles[i])
         IN  InsertLoop(articles, i + 1,
                 IF r.inserted
                 THEN [rows |-> r.rows,
                       inserted_count |-> acc.inserted_count + 1,
                       inserted_articles |-> Append(acc.inserted_articles, articles[i])]
                 ELSE acc)

\* raised: `with get_db_connection() as conn` entered with None
insert_articles_simple(articles, pg) ==
    IF articles = <<>>
    THEN [raised |-> FALSE, inserted_count |-> 0, inserted_articles |-> <<>>, rows |-> table]
    ELSE IF pg_get_db_connection(pg) = "None"
    THEN [raised |-> TRUE, inserted_count |-> 0, inserted_articles |-> <<>>, rows |-> table]
    ELSE IF pg = "error"
    THEN [raised |-> FALSE, inserted_count |-> 0, inserted_articles |-> <<>>, rows |-> table]
    ELSE LET acc == InsertLoop(articles, 1,
                        [rows |-> table, inserted_count |-> 0, inserted_articles |-> <<>>])
         IN  [raised |-> FALSE, inserted_count |-> acc.inserted_count,
              inserted_articles |-> acc.inserted_articles, rows |-> acc.rows]

\* the array read back from the file: [] when it is missing or does not parse
ExistingArticles(c) == IF IsList(c) THEN c ELSE <<>>

\* a published_at value: None, the text a provider sent for an instant, or a
\* datetime object for it
Instants == 1..2

Stamps == {[kind |-> "none", at |-> 0]}
            \cup {[kind |-> k, at |-> t] : k \in {"text", "datetime"}, t \in Instants}

\* datetime.isoformat()
isoformat(stamp) == [kind |-> "text", at |-> stamp.at]

\* datetime.fromisoformat(text)
fromisoformat(stamp) == [kind |-> "datetime", at |-> stamp.at]

\* if 'published_at' in article and isinstance(article['published_at'],
\* datetime): article['published_at'] = article['published_at'].isoformat()
published_at_to_isoformat(article) ==
    IF "published_at" \in DOMAIN article /\ article.published_at.kind = "datetime"
    THEN [article EXCEPT !.published_at = isoformat(@)]
    ELSE article

\* json.dump accepts the article: a datetime is not JSON serializable
JsonSerializable(article) ==
    "published_at" \in DOMAIN article => article.published_at.kind # "datetime"

\* a file sink that skips the articles whose url the file already holds
save_articles_to_json_simple_skips_known(articles, filename, fs) ==
    LET existing == ExistingArticles(files[filename])
        known == {existing[i].url : i \in 1..Len(existing)}
        fresh == SelectSeq(articles, LAMBDA x : x.url \notin known)
    IN  IF articles = <<>> THEN [count |-> 0, content |-> files[filename]]
        ELSE IF fs = "dump_error" THEN [count |-> 0, content |-> Corrupt]
        ELSE [count |-> Len(fresh), content |-> existing \o fresh]

\* dump_error: json.dump raises after open(filename, 'w') has truncated the file
save_articles_to_json_simple(articles, filename, fs) ==
    LET existing_articles == ExistingArticles(files[filename]) \o articles
        converted == [i \in 1..Len(existing_articles) |->
                         published_at_to_isoformat(existing_articles[i])]
    IN  IF articles = <<>> THEN [count |-> 0, content |-> files[filename]]
        ELSE IF fs = "dump_error" THEN [count |-> 0, content |-> Corrupt]
        ELSE [count |-> Len(articles), content |-> converted]

\* news_db_utils.save_articles_to_json_simple: the same without the
\* conversion of the timestamps, so that json.dump raises TypeError on a
\* datetime, after open(filename, 'w') has truncated the file and the articles
\* before it have been written
db_save_articles_to_json_simple(articles, filename, fs) ==
    LET existing_articles == ExistingArticles(files[filename]) \o articles
    IN  IF articles = <<>> THEN [count |-> 0, content |-> files[filename]]
        ELSE IF fs = "dump_error"
                \/ \E i \in 1..Len(existing_articles) : ~JsonSerializable(existing_articles[i])
        THEN [count |-> 0, content |-> Corrupt]
        ELSE [count |-> Len(articles), content |-> existing_articles]

\* get_mongo_client: None on ConnectionFailure
get_mongo_client(mg) == IF mg = "down" THEN "None" ELSE "client"

\* UpdateOne counted by matched_count: a matched document counts as written
\* whether or not the update changed it
update_one_counts_matched(docs, article) ==
    LET matched == {d \in docs : d.url = article.url}
    IN  IF matched = {}
        THEN [docs |-> docs \cup {article}, upserted |-> 1, modified |-> 0]
        ELSE LET d == CHOOSE x \in matched : TRUE
             IN  [docs |-> (docs \ {d}) \cup {article}, upserted |-> 0, modified |-> 1]

\* UpdateOne({"url": url}, {"$set": article}, upsert=True) and its share of
\* upserted_count and modified_count: an update that changes nothing is matched
\* but not modified
update_one(docs, article) ==
    LET matched == {d \in docs : d.url = article.url}
    IN  IF matched = {}
        THEN [docs |-> docs \cup {article}, upserted |-> 1, modified |-> 0]
        ELSE LET d == CHOOSE x \in matched : TRUE
             IN  IF d = article
                 THEN [docs |-> docs, upserted |-> 0, modified |-> 0]
                 ELSE [docs |-> (docs \ {d}) \cup {article}, upserted |-> 0, modified |-> 1]

\* collection.bulk_write of the first n operations, in order
RECURSIVE bulk_write(_, _, _, _)
bulk_write(articles, i, n, acc) ==
    IF i > n THEN acc
    ELSE LET r == update_one(acc.docs, articles[i])
         IN  bulk_write(articles, i + 1, n,
                 [docs |-> r.docs,
                  upserted_count |-> acc.upserted_count + r.upserted,
                  modified_count |-> acc.modified_count + r.modified])

\* applied: the operations the server had applied when bulk_write failed.
\* raised: an error of bulk_write that is no OperationFailure (the connection
\* lost after the ismaster ping) passes the except clause
save_articles_to_mongo(articles, mg, applied) ==
    IF articles = <<>> THEN [raised |-> FALSE, saved_count |-> 0, docs |-> mirror]
    ELSE IF get_mongo_client(mg) = "None"
    THEN [raised |-> FALSE, saved_count |-> 0, docs |-> mirror]
    ELSE LET n == IF mg = "up" THEN Len(articles) ELSE applied
             result == bulk_write(articles, 1, n,
                           [docs |-> mirror, upserted_count |-> 0, modified_count |-> 0])
         IN  CASE mg = "up" ->
                    [raised |-> FALSE,
                     saved_count |-> result.upserted_count + result.modified_count,
                     docs |-> result.docs]
               [] mg = "op_failure" ->
                    [raised |-> FALSE, saved_count |-> 0, docs |-> result.docs]
               [] OTHER ->
                    [raised |-> TRUE, saved_count |-> 0, docs |-> result.docs]

NoResult ==
    [raised |-> FALSE, attempted |-> {}, db_count |-> 0, json_count |-> 0,
     mongo_count |-> 0, new_articles |-> <<>>]

\* attempted: the sinks whose function was called; the counts of a call that
\* raised are those its sinks had returned by then.
\* rows, content, docs: the three stores after the call
save_articles_simple(articles, json_filename, pg, fs, mg, applied) ==
    IF articles = <<>>
    THEN [out |-> NoResult, rows |-> table, content |-> files[json_filename], docs |-> mirror]
    ELSE LET db == insert_articles_simple(articles, pg)
             js == save_articles_to_json_simple(articles, json_filename, fs)
             mo == save_articles_to_mongo(articles, mg, applied)
         IN  IF db.raised
             THEN [out |-> [NoResult EXCEPT !.raised = TRUE, !.attempted = {"postgres"}],
                   rows |-> table, content |-> files[json_filename], docs |-> mirror]
             ELSE [out |-> [raised |-> mo.raised,
                            attempted |-> {"postgres", "json", "mongo"},
                            db_count |-> db.inserted_count,
                            json_count |-> js.count,
                            mongo_count |-> mo.saved_count,
                            new_articles |-> db.inserted_articles],
                   rows |-> db.rows, content |-> js.content, docs |-> mo.docs]

\* -------------------------------------------------- actions of the writer

PersistArticles == {Art("u1", <<"A">>), Art("u1", <<"b">>), Art("u2", <<"b">>)}

PersistBatches == SeqsUpTo(PersistArticles, MaxBatch)

PersistFile == "outputs/02_newsapi_ai.json"

\* one call of news_postgres_utils.save_articles_simple(articles, json_filename)
Persist ==
    /\ op = "idle"
    /\ \E articles \in PersistBatches, pg \in PgModes, fs \in FsModes, mg \in MongoModes,
          applied \in 0..MaxBatch :
        /\ Len(ExistingArticles(files[PersistFile])) + Len(articles) <= MaxFile
        /\ IF mg \in {"op_failure", "conn_lost"} /\ pg # "down" /\ articles # <<>>
           THEN applied < Len(articles) \/ (mg = "conn_lost" /\ applied = Len(articles))
           ELSE applied = 0
        /\ LET r == save_articles_simple(articles, PersistFile, pg, fs, mg, applied)
           IN  /\ table' = r.rows
               /\ files' = [files EXCEPT ![PersistFile] = r.content]
               /\ mirror' = r.docs
               /\ ret' = r.out @@ [rows_before |-> table, docs_before |-> mirror]
        /\ op' = "persist"
        /\ arg' = articles
        /\ env' = [pg |-> pg, fs |-> fs, mongo |-> mg]
        /\ prev' = prev
        /\ UNCHANGED Sched

\* the call has returned (or raised) and the caller has used its result
Return ==
    /\ op = "persist"
    /\ op' = "idle"
    /\ arg' = <<>>
    /\ env' = [pg |-> "up"]
    /\ ret' = [raised |-> FALSE]
    /\ prev' = IF Len(arg) = 1
               THEN [article |-> arg[1],
                     pg_ok |-> env.pg = "up" /\ ~ret.raised,
                     mongo_ok |-> env.mongo = "up" /\ ~ret.raised,
                     db_count |-> ret.db_count,
                     mongo_count |-> ret.mongo_count,
                     fresh_db |-> arg[1].url \notin UrlsOf(ret.rows_before),
                     fresh_mirror |-> arg[1].url \notin UrlsOf(ret.docs_before)]
               ELSE NoCall
    /\ UNCHANGED <<Stores, Sched>>

InitPersist ==
    /\ table = {}
    /\ mirror = {}
    /\ files = [f \in CacheFiles |-> Missing]
    /\ op = "idle"
    /\ arg = <<>>
    /\ env = [pg |-> "up"]
    /\ ret = [raised |-> FALSE]
    /\ prev = NoCall
    /\ SchedInit

NextPersist == Persist \/ Return

SpecPersist == InitPersist /\ [][NextPersist]_vars

\* ------------------------------------------------- claims on deduplicate

UrlAt(i) == arg[i].url
NormAt(i) == normalize_title(arg[i].title)
Positions == 1..Len(arg)

\* candidate i matched a stored key or a candidate kept before it
CollidesByUrl(i) ==
    \/ UrlAt(i) \in ret.existing_urls
    \/ \E k \in ret.kept : k < i /\ UrlAt(k) = UrlAt(i)
CollidesByTitle(i) ==
    \/ NormAt(i) \in ret.existing_titles
    \/ \E k \in ret.kept : k < i /\ NormAt(k) = NormAt(i)

SameUrlPair(i, j) == i < j /\ UrlAt(i) # "" /\ UrlAt(i) = UrlAt(j)
SameTitlePair(i, j) ==
    i < j /\ UrlAt(i) # UrlAt(j) /\ NormAt(i) # <<>> /\ NormAt(i) = NormAt(j)

\* C1 as stated: of two candidates with the same non-empty url the later one
\* never survives (at most one survives, and a survivor is the earlier one).
C1_LaterSameUrlNeverSurvives ==
    op = "dedup" =>
        \A i, j \in Positions : SameUrlPair(i, j) => j \notin ret.kept

\* C1 amended: of two candidates with the same non-empty url at most one
\* survives; the later one survives only when the earlier one was dropped for
\* its normalized title; an earlier one that matches nothing survives alone,
\* so a two-article batch with one url yields the first and duplicate_count 1.
C1_SameUrlAtMostOne ==
    op = "dedup" =>
        /\ \A i, j \in Positions : SameUrlPair(i, j) =>
               /\ ~(i \in ret.kept /\ j \in ret.kept)
               /\ j \in ret.kept => (CollidesByTitle(i) /\ ~CollidesByUrl(i))
               /\ (~CollidesByTitle(i) /\ ~CollidesByUrl(i)) =>
                      (i \in ret.kept /\ j \notin ret.kept)
        /\ (Len(arg) = 2 /\ SameUrlPair(1, 2) /\ ~CollidesByTitle(1) /\ ~CollidesByUrl(1)) =>
               (ret.unique = <<arg[1]>> /\ ret.duplicate_count = 1)

\* two candidates with one url and different titles, the first kept, the
\* second dropped for its url
C1_Witness ==
    /\ op = "dedup" /\ Len(arg) = 2 /\ SameUrlPair(1, 2)
    /\ NormAt(1) # NormAt(2) /\ NormAt(2) \notin ret.existing_titles
    /\ ret.unique = <<arg[1]>> /\ ret.duplicate_count = 1

\* C2 as stated: of two candidates with different urls and the same non-empty
\* normalized title the later one never survives.
C2_LaterSameTitleNeverSurvives ==
    op = "dedup" =>
        \A i, j \in Positions : SameTitlePair(i, j) => j \notin ret.kept

\* C2 amended: of two candidates with different urls and the same non-empty
\* normalized title at most one survives; the later one survives only when
\* the earlier one was dropped for its url; an earlier one that matches
\* nothing survives alone.
C2_SameTitleAtMostOne ==
    op = "dedup" =>
        \A i, j \in Positions : SameTitlePair(i, j) =>
            /\ ~(i \in ret.kept /\ j \in ret.kept)
            /\ j \in ret.kept => (CollidesByUrl(i) /\ ~CollidesByTitle(i))
            /\ (~CollidesByTitle(i) /\ ~CollidesByUrl(i)) =>
                   (i \in ret.kept /\ j \notin ret.kept)

\* two candidates with different urls whose raw titles differ and normalize
\* alike, the first kept, the second dropped for its title
C2_Witness ==
    /\ op = "dedup" /\ Len(arg) = 2 /\ SameTitlePair(1, 2)
    /\ arg[1].title # arg[2].title
    /\ UrlAt(2) \notin ret.existing_urls
    /\ ret.kept = {1} /\ ret.duplicate_count = 1

\* C3: a batch whose titles all normalize to the empty string and whose urls
\* are non-empty, pairwise different and not stored comes back whole, with
\* duplicate_count = 0.
C3_EmptyTitlesNeverCollide ==
    (/\ op = "dedup"
     /\ \A i \in Positions : NormAt(i) = <<>> /\ UrlAt(i) # ""
                             /\ UrlAt(i) \notin ret.existing_urls
     /\ \A i, j \in Positions : i # j => UrlAt(i) # UrlAt(j))
    => (ret.unique = arg /\ ret.duplicate_count = 0)

\* C4: no article of unique has a non-empty url or a non-empty normalized
\* title among the loaded existing keys, and no two articles of unique share
\* a non-empty url or a non-empty normalized title.
C4_UniqueAvoidsKnownKeys ==
    op = "dedup" =>
        /\ \A i \in ret.kept :
               /\ UrlAt(i) # "" => UrlAt(i) \notin ret.existing_urls
               /\ NormAt(i) # <<>> => NormAt(i) \notin ret.existing_titles
        /\ \A i, j \in ret.kept : i # j =>
               /\ UrlAt(i) # "" => UrlAt(i) # UrlAt(j)
               /\ NormAt(i) # <<>> => NormAt(i) # NormAt(j)
        /\ \A k \in 1..Len(ret.unique) :
               /\ ret.unique[k].url # "" => ret.unique[k].url \notin ret.existing_urls
               /\ normalize_title(ret.unique[k].title) # <<>> =>
                      normalize_title(ret.unique[k].title) \notin ret.existing_titles

\* a batch with one candidate dropped for a stored url and one kept
C4_Witness ==
    /\ op = "dedup" /\ Len(arg) = 2
    /\ \E i \in Positions : /\ i \notin ret.kept
                            /\ UrlAt(i) # "" /\ UrlAt(i) \in ret.existing_urls
                            /\ NormAt(i) \notin ret.existing_titles
    /\ Len(ret.unique) = 1

\* ------------------------------------------- claims on the existing keys

\* the non-empty keys of a set of articles
UrlKeysOf(S) == {a.url : a \in S} \ {""}
TitleKeysOf(S) == {normalize_title(a.title) : a \in S} \ {<<>>}

ArticlesIn(c) == IF IsList(c) THEN {c[i] : i \in 1..Len(c)} ELSE {}

\* C5: with the store reachable, every non-empty key of every row of the
\* table and of every article of every cache file, the feed family's file
\* included, is in the loaded keys.
C5_KeysOfEverySourceLoaded ==
    (op = "load" /\ env.pg = "up") =>
        /\ UrlKeysOf(table) \subseteq ret.urls
        /\ TitleKeysOf(table) \subseteq ret.titles
        /\ \A f \in CacheFiles :
               /\ UrlKeysOf(ArticlesIn(files[f])) \subseteq ret.urls
               /\ TitleKeysOf(ArticlesIn(files[f])) \subseteq ret.titles

\* C6: loading the keys never raises; the non-empty keys it returns are those
\* of the table when the store answers, and of every file of json_files that
\* is there and parses: an unreachable store or a missing or corrupt file
\* contributes nothing and takes nothing away.
C6_LoadDegradesNeverRaises ==
    op = "load" =>
        LET rows == IF env.pg = "up" THEN table ELSE {}
            read == UNION {ArticlesIn(files[f]) : f \in json_files}
        IN  /\ ~ret.raised
            /\ ret.urls \ {""} = UrlKeysOf(rows) \cup UrlKeysOf(read)
            /\ ret.titles \ {<<>>} = TitleKeysOf(rows) \cup TitleKeysOf(read)

\* the store is down with rows in it, one cache file is corrupt, and the keys
\* of another cache file are returned
C6_Witness ==
    /\ op = "load" /\ env.pg = "down" /\ table # {}
    /\ \E f \in json_files : files[f] = Corrupt
    /\ \E f \in json_files : IsList(files[f])
    /\ ret.urls # {} /\ ~ret.raised

\* ------------------------------------------------ claims: multi-sink writer

\* the call in progress is the one that follows a call for the same single article
SecondCallSameArticle == op = "persist" /\ arg = <<prev.article>>

\* C7 (as stated): when the relational store is unreachable during persist of
\* a non-empty batch, persist returns without raising, with db_count = 0 and
\* new_articles = [], and the JSON append and the mongo upsert are still
\* attempted, the JSON count being that of its own success
C7_StoreDownOtherSinksAttempted ==
    (op = "persist" /\ arg # <<>> /\ env.pg = "down") =>
        /\ ~ret.raised
        /\ ret.db_count = 0 /\ ret.new_articles = <<>>
        /\ {"json", "mongo"} \subseteq ret.attempted
        /\ (env.fs = "ok" => ret.json_count = Len(arg))

\* C8 (as stated): when the mirror is unreachable or its bulk write fails
\* during persist, persist returns without raising with mongo_count = 0, and
\* db_count, new_articles and json_count are those of the same call made with
\* a working mirror
C8_MirrorFailureIsolated ==
    [][(op' = "persist" /\ arg' # <<>> /\ env'.mongo # "up") =>
          LET healthy == save_articles_simple(arg', PersistFile, env'.pg, env'.fs, "up", 0).out
          IN  /\ ~ret'.raised
              /\ ret'.mongo_count = 0
              /\ ret'.db_count = healthy.db_count
              /\ ret'.new_articles = healthy.new_articles
              /\ ret'.json_count = healthy.json_count]_vars

\* C9: persisting the same article twice with a reachable relational store
\* (and a mirror whose connection is not lost mid-call) yields db_count = 1 on
\* the first call, the url being new to the table, and db_count = 0 with
\* new_articles = [] on the second; the second insert raises nothing and
\* leaves the table, and so the stored row, unchanged
C9_SecondInsertIsNoOp ==
    /\ (prev.pg_ok /\ prev.fresh_db) => prev.db_count = 1
    /\ (SecondCallSameArticle /\ prev.pg_ok /\ env.pg = "up" /\ env.mongo # "conn_lost") =>
           /\ ~ret.raised
           /\ ret.db_count = 0 /\ ret.new_articles = <<>>
           /\ table = ret.rows_before
           /\ \E r \in table : r.url = prev.article.url

C9_Witness ==
    /\ SecondCallSameArticle /\ prev.pg_ok /\ prev.fresh_db /\ prev.db_count = 1
    /\ env.pg = "up" /\ env.mongo # "conn_lost"
    /\ ret.db_count = 0 /\ prev.article \in table

Copies(c, x) == Cardinality({i \in 1..Len(ExistingArticles(c)) : ExistingArticles(c)[i] = x})

\* C11: the JSON write of persist appends without deduplicating: after a
\* successful write of a non-empty batch the file holds the previous array
\* (empty when the file was missing or did not parse) followed by every
\* article of the batch in order, and json_count is the batch length, so an
\* article persisted again gains one more copy
C11_FileAppendsWithoutDedup ==
    [][(op' = "persist" /\ arg' # <<>> /\ "json" \in ret'.attempted /\ env'.fs = "ok") =>
          /\ files'[PersistFile] = ExistingArticles(files[PersistFile]) \o arg'
          /\ ret'.json_count = Len(arg')
          /\ \A i \in 1..Len(arg') :
                Copies(files'[PersistFile], arg'[i]) > Copies(files[PersistFile], arg'[i])]_vars

C11_Witness ==
    /\ SecondCallSameArticle /\ "json" \in ret.attempted /\ env.fs = "ok"
    /\ ret.json_count = 1
    /\ files[PersistFile] = <<prev.article, prev.article>>

\* ----------------------------------------------------------- pipelines

\* what the providers serve: two articles under one url
SchedArticles == {Art("u1", <<"A">>), Art("u1", <<"b">>)}

Fetches == SeqsUpTo(SchedArticles, MaxFetch)

\* the cache file a family's pipeline rewrites (of the four API collectors,
\* which run the same steps one after the other, the first is followed)
CacheFileOf(f) == IF f = "api" THEN PersistFile ELSE NEWS_FILE_RSS

\* the family whose pipeline a runner runs
FamilyOf(r) == IF r = EventLoop THEN handler.family ELSE r[1]

PipeBegin(f) == [NoPipe EXCEPT !.stage = IF f = "api" THEN "fetch" ELSE "rss_read"]

\* news_db_utils.insert_articles_simple: 0 without a connection, else one
\* INSERT ... ON CONFLICT (url) DO NOTHING per article, counted by rowcount
db_insert_articles_simple(articles, pg) ==
    IF articles = <<>> \/ get_db_connection(pg) = "None"
    THEN [inserted_count |-> 0, rows |-> table]
    ELSE LET acc == InsertLoop(articles, 1,
                        [rows |-> table, inserted_count |-> 0, inserted_articles |-> <<>>])
         IN  [inserted_count |-> acc.inserted_count, rows |-> acc.rows]

\* news_rss_collector.remove_duplicates: the first item of each title|link
\* key, items without a title or a link dropped
RECURSIVE remove_duplicates(_)
remove_duplicates(news_items) ==
    IF news_items = <<>> THEN <<>>
    ELSE LET n == Len(news_items)
             before == remove_duplicates(SubSeq(news_items, 1, n - 1))
             item == news_items[n]
         IN  IF Truthy(item.title) /\ item.url # ""
                /\ \A i \in 1..Len(before) : before[i] # item
             THEN Append(before, item)
             ELSE before

\* collector.fetch_articles, which ends with deduplicate_articles; nothing is
\* saved when nothing is left
ApiFetch(r) ==
    /\ pipe[r].stage = "fetch"
    /\ \E articles \in Fetches, pg \in {"up", "down"} :
          LET unique == deduplicate_articles(articles, pg).unique
          IN  pipe' = [pipe EXCEPT ![r] =
                          IF unique = <<>> THEN [@ EXCEPT !.stage = "returned"]
                          ELSE [@ EXCEPT !.stage = "insert", !.articles = unique]]
    /\ UNCHANGED <<table, mirror, files, op, arg, env, ret, prev, auto_thread,
                   auto_stop_event, auto_new_count, last_collection_time,
                   error_occurred, worker, handler, response>>

\* save_articles_simple, first half: the rows
ApiInsert(r) ==
    /\ pipe[r].stage = "insert"
    /\ \E pg \in {"up", "down"} :
          LET db == db_insert_articles_simple(pipe[r].articles, pg)
          IN  /\ table' = db.rows
              /\ pipe' = [pipe EXCEPT ![r].stage = "json_read",
                                      ![r].inserted = db.inserted_count]
    /\ UNCHANGED <<mirror, files, op, arg, env, ret, prev, auto_thread,
                   auto_stop_event, auto_new_count, last_collection_time,
                   error_occurred, worker, handler, response>>

\* save_articles_to_json_simple: json.load of the existing array
ApiJsonRead(r) ==
    /\ pipe[r].stage = "json_read"
    /\ pipe' = [pipe EXCEPT ![r].stage = "json_write",
                            ![r].existing = ExistingArticles(files[PersistFile])]
    /\ UNCHANGED <<table, mirror, files, op, arg, env, ret, prev, auto_thread,
                   auto_stop_event, auto_new_count, last_collection_time,
                   error_occurred, worker, handler, response>>

\* save_articles_to_json_simple: json.dump of the extended array; the
\* collector's run function and main then return
ApiJsonWrite(r) ==
    /\ pipe[r].stage = "json_write"
    /\ files' = [files EXCEPT ![PersistFile] = pipe[r].existing \o pipe[r].articles]
    /\ pipe' = [pipe EXCEPT ![r].stage = "returned", ![r].existing = <<>>]
    /\ UNCHANGED <<table, mirror, op, arg, env, ret, prev, auto_thread,
                   auto_stop_event, auto_new_count, last_collection_time,
                   error_occurred, worker, handler, response>>

\* news_rss_collector.run: the existing news loaded, the sources fetched
RssRead(r) ==
    /\ pipe[r].stage = "rss_read"
    /\ \E new_news \in Fetches :
          pipe' = [pipe EXCEPT ![r].stage = "rss_write",
                               ![r].existing = ExistingArticles(files[NEWS_FILE_RSS]),
                               ![r].articles = new_news]
    /\ UNCHANGED <<table, mirror, files, op, arg, env, ret, prev, auto_thread,
                   auto_stop_event, auto_new_count, last_collection_time,
                   error_occurred, worker, handler, response>>

\* news_rss_collector.run: merge, remove_duplicates and the rewrite of the
\* file, whose open() is outside any try
RssWrite(r) ==
    /\ pipe[r].stage = "rss_write"
    /\ \E written \in BOOLEAN :
          IF written
          THEN /\ files' = [files EXCEPT ![NEWS_FILE_RSS] =
                               remove_duplicates(pipe[r].existing \o pipe[r].articles)]
               /\ pipe' = [pipe EXCEPT ![r].stage = "returned", ![r].existing = <<>>]
          ELSE /\ files' = files
               /\ pipe' = [pipe EXCEPT ![r].stage = "raised", ![r].existing = <<>>]
    /\ UNCHANGED <<table, mirror, op, arg, env, ret, prev, auto_thread,
                   auto_stop_event, auto_new_count, last_collection_time,
                   error_occurred, worker, handler, response>>

\* a whole run of the API pipeline on the stores as they are: fetch and
\* deduplicate, then the rows and the JSON array when something is left
api_pipeline(articles, pg_read, pg_write) ==
    LET unique == deduplicate_articles(articles, pg_read).unique
        db == db_insert_articles_simple(unique, pg_write)
    IN  IF unique = <<>>
        THEN [rows |-> table, content |-> files[PersistFile], raised |-> FALSE]
        ELSE [rows |-> db.rows,
              content |-> ExistingArticles(files[PersistFile]) \o unique,
              raised |-> FALSE]

\* a whole run of news_rss_collector.run on the file as it is
rss_pipeline(new_news, written) ==
    IF written
    THEN [rows |-> table,
          content |-> remove_duplicates(ExistingArticles(files[NEWS_FILE_RSS]) \o new_news),
          raised |-> FALSE]
    ELSE [rows |-> table, content |-> files[NEWS_FILE_RSS], raised |-> TRUE]

\* the runs a family's pipeline can make from the present stores
PipelineRuns(f) ==
    IF f = "api"
    THEN {api_pipeline(a, pr, pw) : a \in Fetches, pr \in {"up", "down"}, pw \in {"up", "down"}}
    ELSE {rss_pipeline(n, w) : n \in Fetches, w \in BOOLEAN}

PipeStep(r) ==
    \/ ApiFetch(r) \/ ApiInsert(r) \/ ApiJsonRead(r) \/ ApiJsonWrite(r)
    \/ RssRead(r) \/ RssWrite(r)

PipeDone(r) == pipe[r].stage \in {"returned", "raised"}

\* ----------------------------------------------------- periodic workers

\* threading.Thread.is_alive of a started thread
is_alive(f, t) == worker[f][t].pc # "off"

\* datetime.now(): some time, whatever the time stored before
Now(f) == 1

\* what a pipeline hands back: news_api_collector.main and
\* news_rss_collector.run end without returning a value
NoneValue == [none |-> TRUE, list |-> <<>>]

ReturnValue(r) == NoneValue

\* an except branch that leaves the error flag as it found it
periodic_iteration_end_silent(f, raised, new_articles) ==
    [count |-> auto_new_count[f],
     time |-> IF raised THEN last_collection_time[f] ELSE Now(f),
     error |-> error_occurred[f]]

\* the body of the try of auto_api_loop / auto_rss_loop after the pipeline
\* call: the time, then len(new_articles), which raises on None
periodic_iteration_end(f, raised, new_articles) ==
    IF raised
    THEN [count |-> auto_new_count[f], time |-> last_collection_time[f], error |-> TRUE]
    ELSE IF new_articles.none
    THEN [count |-> auto_new_count[f], time |-> Now(f), error |-> TRUE]
    ELSE [count |-> auto_new_count[f] + Len(new_articles.list), time |-> Now(f),
          error |-> error_occurred[f]]

\* the loop test ignoring the stop event
LoopContinues_ignores_stop(f) == TRUE

\* while not auto_stop_event.is_set()
LoopContinues(f) == ~auto_stop_event[f]

\* the while test: the thread ends, or an iteration begins by clearing the
\* error flag and calling the pipeline
LoopTest(f, t) ==
    /\ worker[f][t].pc = "test"
    /\ IF LoopContinues(f)
       THEN /\ error_occurred' = [error_occurred EXCEPT ![f] = FALSE]
            /\ worker' = [worker EXCEPT ![f][t].pc = "run"]
            /\ pipe' = [pipe EXCEPT ![<<f, t>>] = PipeBegin(f)]
       ELSE /\ worker' = [worker EXCEPT ![f][t] = WorkerOff]
            /\ UNCHANGED <<error_occurred, pipe>>
    /\ UNCHANGED <<table, mirror, files, op, arg, env, ret, prev, auto_thread,
                   auto_stop_event, auto_new_count, last_collection_time,
                   handler, response>>

\* the pipeline has returned or raised: the rest of the try, or the except
IterationEnd(f, t) ==
    /\ worker[f][t].pc = "run"
    /\ PipeDone(<<f, t>>)
    /\ LET e == periodic_iteration_end(f, pipe[<<f, t>>].stage = "raised",
                                       ReturnValue(<<f, t>>))
       IN  /\ auto_new_count' = [auto_new_count EXCEPT ![f] = e.count]
           /\ last_collection_time' = [last_collection_time EXCEPT ![f] = e.time]
           /\ error_occurred' = [error_occurred EXCEPT ![f] = e.error]
    /\ worker' = [worker EXCEPT ![f][t].pc = "sleep", ![f][t].i = 0]
    /\ pipe' = [pipe EXCEPT ![<<f, t>>] = NoPipe]
    /\ UNCHANGED <<table, mirror, files, op, arg, env, ret, prev, auto_thread,
                   auto_stop_event, handler, response>>

\* an iteration whose pipeline runs without another runner in between
IterationAtOnce(f, t) ==
    /\ worker[f][t].pc = "run"
    /\ pipe[<<f, t>>] = PipeBegin(f)
    /\ \E run \in PipelineRuns(f) :
          /\ table' = run.rows
          /\ files' = [files EXCEPT ![CacheFileOf(f)] = run.content]
          /\ LET e == periodic_iteration_end(f, run.raised, ReturnValue(<<f, t>>))
             IN  /\ auto_new_count' = [auto_new_count EXCEPT ![f] = e.count]
                 /\ last_collection_time' = [last_collection_time EXCEPT ![f] = e.time]
                 /\ error_occurred' = [error_occurred EXCEPT ![f] = e.error]
    /\ worker' = [worker EXCEPT ![f][t].pc = "sleep", ![f][t].i = 0]
    /\ pipe' = [pipe EXCEPT ![<<f, t>>] = NoPipe]
    /\ UNCHANGED <<mirror, op, arg, env, ret, prev, auto_thread,
                   auto_stop_event, handler, response>>

\* one round of `for _ in range(interval)`: break on the stop event, else
\* sleep a second; the loop test follows the last round
SleepStep(f, t) ==
    /\ worker[f][t].pc = "sleep"
    /\ worker' = [worker EXCEPT ![f][t] =
                     IF auto_stop_event[f] \/ @.i + 1 >= @.interval
                     THEN [@ EXCEPT !.pc = "test", !.i = 0]
                     ELSE [@ EXCEPT !.i = @ + 1]]
    /\ UNCHANGED <<table, mirror, files, op, arg, env, ret, prev, auto_thread,
                   auto_stop_event, auto_new_count, last_collection_time,
                   error_occurred, handler, pipe, response>>

\* a worker thread whose pipeline steps interleave with the other runners
WorkerStep(f, t) ==
    \/ LoopTest(f, t)
    \/ worker[f][t].pc = "run" /\ PipeStep(<<f, t>>)
    \/ IterationEnd(f, t)
    \/ SleepStep(f, t)

WorkerStepAtOnce(f, t) == LoopTest(f, t) \/ IterationAtOnce(f, t) \/ SleepStep(f, t)

\* ------------------------------------------------------ request handlers

\* start_auto_api / start_auto_rss that start a thread whatever is running
AlreadyRunning_never(f) == FALSE

\* auto_api_thread and auto_api_thread.is_alive()
AlreadyRunning(f) == auto_thread[f] # 0 /\ is_alive(f, auto_thread[f])

\* the thread object a start creates
NewThread(f) == CHOOSE t \in Threads :
                    ~is_alive(f, t) /\ \A u \in 1..(t - 1) : is_alive(f, u)

\* start_auto_api / start_auto_rss that clear the stop event before they
\* test whether the family's thread is alive
start_auto_clears_first(F, interval) ==
    /\ handler.pc = "idle"
    /\ \A f \in F : AlreadyRunning(f) \/ \E t \in Threads : ~is_alive(f, t)
    /\ LET started == {f \in F : ~AlreadyRunning(f)}
       IN  /\ auto_stop_event' = [f \in Families |->
                                     IF f \in F THEN FALSE ELSE auto_stop_event[f]]
           /\ auto_thread' = [f \in Families |->
                                 IF f \in started THEN NewThread(f) ELSE auto_thread[f]]
           /\ worker' = [f \in Families |->
                            IF f \in started
                            THEN [worker[f] EXCEPT ![NewThread(f)] =
                                     [pc |-> "test", interval |-> interval, i |-> 0]]
                            ELSE worker[f]]
           /\ response' = [request |-> "start", success |-> started # {}]
    /\ UNCHANGED <<table, mirror, files, op, arg, env, ret, prev, auto_new_count,
                   last_collection_time, error_occurred, handler, pipe>>

\* start_auto_api / start_auto_rss for each family of F: False when the
\* family's thread is alive, else the event is cleared and a thread started
start_auto(F, interval) ==
    /\ handler.pc = "idle"
    /\ \A f \in F : AlreadyRunning(f) \/ \E t \in Threads : ~is_alive(f, t)
    /\ LET started == {f \in F : ~AlreadyRunning(f)}
       IN  /\ auto_stop_event' = [f \in Families |->
                                     IF f \in started THEN FALSE ELSE auto_stop_event[f]]
           /\ auto_thread' = [f \in Families |->
                                 IF f \in started THEN NewThread(f) ELSE auto_thread[f]]
           /\ worker' = [f \in Families |->
                            IF f \in started
                            THEN [worker[f] EXCEPT ![NewThread(f)] =
                                     [pc |-> "test", interval |-> interval, i |-> 0]]
                            ELSE worker[f]]
           /\ response' = [request |-> "start", success |-> started # {}]
    /\ UNCHANGED <<table, mirror, files, op, arg, env, ret, prev, auto_new_count,
                   last_collection_time, error_occurred, handler, pipe>>

\* stop_auto_api / stop_auto_rss for each family of F
stop_auto(F) ==
    /\ handler.pc = "idle"
    /\ auto_stop_event' = [f \in Families |-> f \in F \/ auto_stop_event[f]]
    /\ response' = [request |-> "stop", success |-> TRUE]
    /\ UNCHANGED <<table, mirror, files, op, arg, env, ret, prev, auto_thread,
                   auto_new_count, last_collection_time, error_occurred, worker,
                   handler, pipe>>

\* POST /api/auto/start_api, /api/auto/start_rss
Start(f) == start_auto({f}, MaxInterval)

\* POST /api/auto/stop_api, /api/auto/stop_rss
Stop(f) == stop_auto({f})

\* POST /api/auto/start
StartBoth == start_auto(Families, MaxInterval)

\* POST /api/auto/stop
StopBoth == stop_auto(Families)

\* the rest of collect_api_news / collect_rss_news after the pipeline call:
\* None skips the count and raises in len(new_articles)
collect_news_end(f, raised, new_articles) ==
    IF raised \/ new_articles.none
    THEN [count |-> auto_new_count[f], error |-> TRUE, success |-> FALSE]
    ELSE [count |-> auto_new_count[f] + Len(new_articles.list),
          error |-> error_occurred[f], success |-> TRUE]

\* the rest of the collect branches of handle_command: len(new_articles)
\* raises on None
handle_command_end(f, raised, new_articles) ==
    IF raised \/ new_articles.none
    THEN [count |-> auto_new_count[f], error |-> TRUE, success |-> FALSE]
    ELSE [count |-> auto_new_count[f] + Len(new_articles.list),
          error |-> error_occurred[f], success |-> TRUE]

Triggers == {"endpoint", "command"}

\* POST /api/collect/api, /api/collect/rss, or the command "collect",
\* "collect rss": the error flag is cleared and the pipeline called
ManualBegin(f, via) ==
    /\ handler.pc = "idle"
    /\ error_occurred' = [error_occurred EXCEPT ![f] = FALSE]
    /\ handler' = [pc |-> "collect", family |-> f, via |-> via]
    /\ pipe' = [pipe EXCEPT ![EventLoop] = PipeBegin(f)]
    /\ UNCHANGED <<table, mirror, files, op, arg, env, ret, prev, auto_thread,
                   auto_stop_event, auto_new_count, last_collection_time,
                   worker, response>>

\* the pipeline has returned or raised: the handler answers
ManualEnd ==
    /\ handler.pc = "collect"
    /\ PipeDone(EventLoop)
    /\ LET f == handler.family
           raised == pipe[EventLoop].stage = "raised"
           e == IF handler.via = "endpoint"
                THEN collect_news_end(f, raised, ReturnValue(EventLoop))
                ELSE handle_command_end(f, raised, ReturnValue(EventLoop))
       IN  /\ auto_new_count' = [auto_new_count EXCEPT ![f] = e.count]
           /\ error_occurred' = [error_occurred EXCEPT ![f] = e.error]
           /\ response' = [request |-> "collect", success |-> e.success]
    /\ handler' = HandlerIdle
    /\ pipe' = [pipe EXCEPT ![EventLoop] = NoPipe]
    /\ UNCHANGED <<table, mirror, files, op, arg, env, ret, prev, auto_thread,
                   auto_stop_event, last_collection_time, worker>>

\* a manual collection whose pipeline runs without another runner in between
ManualAtOnce ==
    /\ handler.pc = "collect"
    /\ pipe[EventLoop] = PipeBegin(handler.family)
    /\ \E run \in PipelineRuns(handler.family) :
          LET f == handler.family
              e == IF handler.via = "endpoint"
                   THEN collect_news_end(f, run.raised, ReturnValue(EventLoop))
                   ELSE handle_command_end(f, run.raised, ReturnValue(EventLoop))
          IN  /\ table' = run.rows
              /\ files' = [files EXCEPT ![CacheFileOf(f)] = run.content]
              /\ auto_new_count' = [auto_new_count EXCEPT ![f] = e.count]
              /\ error_occurred' = [error_occurred EXCEPT ![f] = e.error]
              /\ response' = [request |-> "collect", success |-> e.success]
    /\ handler' = HandlerIdle
    /\ pipe' = [pipe EXCEPT ![EventLoop] = NoPipe]
    /\ UNCHANGED <<mirror, op, arg, env, ret, prev, auto_thread,
                   auto_stop_event, last_collection_time, worker>>

StartStop == (\E f \in Families : Start(f) \/ Stop(f)) \/ StartBoth \/ StopBoth

Collect == \E f \in Families, via \in Triggers : ManualBegin(f, via)

InitSched ==
    /\ table = {}
    /\ mirror = {}
    /\ files = [f \in CacheFiles |-> Missing]
    /\ op = "idle"
    /\ arg = <<>>
    /\ env = [pg |-> "up"]
    /\ ret = [raised |-> FALSE]
    /\ prev = NoCall
    /\ SchedInit

\* the scheduler, each pipeline run taken as one step
NextSched ==
    \/ StartStop
    \/ Collect
    \/ ManualAtOnce
    \/ \E f \in Families, t \in Threads : WorkerStepAtOnce(f, t)

SpecSched == InitSched /\ [][NextSched]_vars

\* the iteration a worker is in comes to its end: whatever the pipeline
\* does to the stores, the thread reaches its sleep
IterationCompletes(f, t) ==
    /\ worker[f][t].pc = "run"
    /\ worker' = [worker EXCEPT ![f][t].pc = "sleep", ![f][t].i = 0]

\* the threads are scheduled and the pipeline runs they make terminate
SpecSchedFair ==
    SpecSched /\ \A f \in Families, t \in Threads :
        /\ WF_vars(LoopTest(f, t))
        /\ WF_worker(IterationCompletes(f, t))
        /\ WF_vars(SleepStep(f, t))

\* one family's worker started by POST /api/auto/start_api or start_rss,
\* nothing collected yet
InitRuns ==
    /\ table = {}
    /\ mirror = {}
    /\ files = [f \in CacheFiles |-> Missing]
    /\ op = "idle"
    /\ arg = <<>>
    /\ env = [pg |-> "up"]
    /\ ret = [raised |-> FALSE]
    /\ prev = NoCall
    /\ \E g \in Families :
          /\ auto_thread = [f \in Families |-> IF f = g THEN 1 ELSE 0]
          /\ worker = [f \in Families |-> [t \in Threads |->
                          IF f = g /\ t = 1
                          THEN [pc |-> "test", interval |-> MaxInterval, i |-> 0]
                          ELSE WorkerOff]]
    /\ auto_stop_event = [f \in Families |-> FALSE]
    /\ auto_new_count = [f \in Families |-> 0]
    /\ last_collection_time = [f \in Families |-> 0]
    /\ error_occurred = [f \in Families |-> FALSE]
    /\ handler = HandlerIdle
    /\ pipe = [r \in Runners |-> NoPipe]
    /\ response = [request |-> "start", success |-> TRUE]

\* periodic and manual runs, their pipelines interleaved step by step
NextRuns ==
    \/ Collect
    \/ handler.pc = "collect" /\ PipeStep(EventLoop)
    \/ ManualEnd
    \/ \E f \in Families, t \in Threads : WorkerStep(f, t)

SpecRuns == InitRuns /\ [][NextRuns]_vars

\* the worker threads are scheduled while they test and sleep
SpecRunsFair ==
    SpecRuns /\ \A f \in Families, t \in Threads :
        /\ WF_vars(LoopTest(f, t))
        /\ WF_vars(SleepStep(f, t))

\* ------------------------------------------------------ claims: scheduling

\* runner r has passed the insert of its run
PastInsert(r) == pipe[r].stage \in {"json_read", "json_write", "returned"} /\ pipe[r].articles # <<>>

\* C12: in every reachable state, after any interleaving of periodic and
\* manual pipeline runs, the relational table holds no two rows with the
\* same url
C12_NoTwoRowsShareUrl ==
    \A r1 \in table, r2 \in table : r1.url = r2.url => r1 = r2

C12_Witness ==
    \E r1 \in Runners, r2 \in Runners :
        /\ PastInsert(r1) /\ PastInsert(r2)
        /\ pipe[r1].articles[1].url = pipe[r2].articles[1].url
        /\ pipe[r1].articles[1] # pipe[r2].articles[1]
        /\ pipe[r1].inserted = 1 /\ pipe[r2].inserted = 0
        /\ table = {pipe[r1].articles[1]}

\* the worker threads of family f that are alive
AliveWorkers(f) == {t \in Threads : is_alive(f, t)}

\* C13: in every reachable state at most one worker per family is alive,
\* whatever the start and stop requests; a start request for a family whose
\* worker is alive returns false and changes neither the worker, the stop
\* event nor any counter
C13_AtMostOneWorkerPerFamily ==
    /\ [](\A f \in Families : Cardinality(AliveWorkers(f)) <= 1)
    /\ [][\A f \in Families :
            (AliveWorkers(f) # {} /\ (Start(f) \/ StartBoth)) =>
                /\ Start(f) => ~response'.success
                /\ auto_thread'[f] = auto_thread[f]
                /\ worker'[f] = worker[f]
                /\ auto_stop_event'[f] = auto_stop_event[f]
                /\ auto_new_count' = auto_new_count
                /\ last_collection_time' = last_collection_time
                /\ error_occurred' = error_occurred]_vars

C13_Witness ==
    /\ response = [request |-> "start", success |-> FALSE]
    /\ \E f \in Families : AliveWorkers(f) # {} /\ auto_stop_event[f]

\* C14: after a stop request on a running family the worker eventually
\* exits and the family reports not running, the pipeline run in progress
\* terminating; once the stop event is set the worker starts no collection
\* run other than the one in progress, and a stop seen during the sleep
\* between runs ends the sleep before the full interval has elapsed
C14_StopEndsWorker ==
    /\ \A f \in Families :
          (auto_stop_event[f] /\ AliveWorkers(f) # {}) ~> (AliveWorkers(f) = {})
    /\ [][\A f \in Families, t \in Threads :
            (auto_stop_event[f] /\ worker[f][t].pc # "run") => worker'[f][t].pc # "run"]_vars
    /\ [][\A f \in Families, t \in Threads :
            (auto_stop_event[f] /\ worker[f][t].pc = "sleep" /\ worker'[f][t] # worker[f][t]) =>
                /\ worker'[f][t].pc = "test"
                /\ worker[f][t].i < worker[f][t].interval]_vars

C14_Witness ==
    \E f \in Families :
        /\ auto_stop_event[f] /\ auto_thread[f] # 0 /\ AliveWorkers(f) = {}
        /\ last_collection_time[f] # 0

\* C15: an exception raised by the pipeline inside a periodic iteration
\* never ends the worker: the iteration sets the family's error flag and the
\* worker goes to its sleep, alive; no stop being requested, the sleeping
\* worker starts a further iteration, and every iteration clears the error
\* flag as it begins, before the pipeline is invoked
C15_RaiseNeverEndsWorker ==
    /\ [][\A f \in Families, t \in Threads :
            (worker[f][t].pc = "run" /\ pipe[<<f, t>>].stage = "raised"
                /\ worker'[f][t] # worker[f][t]) =>
                /\ error_occurred'[f]
                /\ worker'[f][t].pc = "sleep"
                /\ is_alive(f, t)']_vars
    /\ \A f \in Families, t \in Threads :
          (worker[f][t].pc = "sleep" /\ ~auto_stop_event[f]) ~> (worker[f][t].pc = "run")
    /\ [][\A f \in Families, t \in Threads :
            (worker[f][t].pc # "run" /\ worker'[f][t].pc = "run") =>
                /\ ~error_occurred'[f]
                /\ pipe'[<<f, t>>] = PipeBegin(f)]_vars

\* a worker asleep after a first iteration whose pipeline raised
C15_Witness ==
    \E f \in Families, t \in Threads :
        /\ worker[f][t].pc = "sleep"
        /\ error_occurred[f]
        /\ last_collection_time[f] = 0

\* the periodic iteration of worker t of family f ends, its pipeline having
\* completed without raising
IterationEndsCompleted(f, t) ==
    /\ worker[f][t].pc = "run"
    /\ pipe[<<f, t>>].stage = "returned"
    /\ worker'[f][t] # worker[f][t]

\* C16: after every periodic iteration whose pipeline completes without
\* raising and newly inserts k articles, the time of the last run has been
\* updated, the family's new count has grown by exactly k, and the error
\* flag is false
C16_CompletedIterationIsCounted ==
    [][\A f \in Families, t \in Threads :
        IterationEndsCompleted(f, t) =>
            /\ last_collection_time'[f] = Now(f)
            /\ auto_new_count'[f] = auto_new_count[f] + pipe[<<f, t>>].inserted
            /\ ~error_occurred'[f]]_vars

\* the manual run in the handler ends and the handler answers
ManualEnds == handler.pc = "collect" /\ handler'.pc = "idle"

\* C17: a manual run of a family, by the collect endpoint or the collect
\* command, clears the family's error flag at its start, and at its end
\* leaves the error flag, the new count and the time of the last run as a
\* periodic iteration with the same outcome would leave them
C17_ManualRunAccountsAsPeriodic ==
    /\ [][\A f \in Families :
            (handler.pc = "idle" /\ handler'.pc = "collect" /\ handler'.family = f) =>
                ~error_occurred'[f]]_vars
    /\ [][ManualEnds =>
            LET f == handler.family
                e == periodic_iteration_end(f, pipe[EventLoop].stage = "raised",
                                            ReturnValue(EventLoop))
            IN  /\ error_occurred'[f] = e.error
                /\ auto_new_count'[f] = e.count
                /\ last_collection_time'[f] = e.time]_vars

\* C18: POST /api/collect/api and POST /api/collect/rss answer success =
\* true whenever the family's pipeline has run to completion, new articles
\* or not, and leave the family's error flag false
C18_CollectEndpointSucceeds ==
    [][(ManualEnds /\ handler.via = "endpoint" /\ pipe[EventLoop].stage = "returned") =>
            /\ response'.request = "collect"
            /\ response'.success
            /\ ~error_occurred'[handler.family]]_vars

\* the articles runner r has handed to the write of its family's file
Appended(r) == {pipe[r].articles[i] : i \in 1..Len(pipe[r].articles)}

\* C19: a manual run and a periodic run of the same family never interleave
\* their read-modify-write of the family's cache file: when both have
\* completed the file holds every article either of them appended
C19_NoLostUpdate ==
    \A f \in Families, t \in Threads :
        (/\ handler.pc = "collect" /\ handler.family = f
         /\ pipe[EventLoop].stage = "returned"
         /\ pipe[<<f, t>>].stage = "returned") =>
            (Appended(EventLoop) \cup Appended(<<f, t>>))
                \subseteq ArticlesIn(files[CacheFileOf(f)])

\* the articles some run has written: the rows of the table and the
\* articles of every collector's cache file
Durable == table \cup UNION {ArticlesIn(files[c]) : c \in CacheFiles}

\* runner r makes its deduplicate call
DeduplicateCall(r) == pipe[r].stage = "fetch" /\ pipe'[r].stage # "fetch"

\* C20: deduplication depends only on what is durable when it is called:
\* whatever run wrote article A to the table or to a collector's cache
\* file, a deduplicate call made afterwards, by any runner, lets through no
\* candidate with A's url or A's normalized title
C20_DedupDropsWhatIsDurable ==
    [][\A r \in Runners :
        DeduplicateCall(r) =>
            \A i \in 1..Len(pipe'[r].articles) :
                /\ pipe'[r].articles[i].url \notin UrlKeysOf(Durable)
                /\ normalize_title(pipe'[r].articles[i].title) \notin TitleKeysOf(Durable)]_vars

\* ------------------------------------------- the collectors of one run

\* run_collection: the four collector functions, in the order they are called
Collectors == <<"run_newsapi_ai", "run_thenewsapi", "run_newsdata", "run_tiingo">>

\* the file each collector's save_articles names
CollectorFile ==
    <<"outputs/02_newsapi_ai.json", "outputs/03_thenewsapi.json",
      "outputs/04_newsdata.json", "outputs/05_tiingo.json">>

\* what can happen to a collector: its constructor raises ValueError for a
\* missing key, fetch_articles returns an error message (network, quota,
\* invalid key), something else in the function raises, or articles come back
CollectorOutcomes == {"no_key", "fetch_error", "raises", "fetched"}

\* what can happen to a feed source: check_source reports a failure,
\* fetch_source raises, or items come back
SourceOutcomes == {"check_failed", "raises", "fetched"}

CollectFetches == SeqsUpTo(PersistArticles, MaxFetch)

\* a collector function without its try / except Exception
run_collector_raises_uncaught(outcome) == outcome \in {"no_key", "raises"}

\* whether the collector function raises to run_collection: its whole body
\* is inside try / except Exception
run_collector_raises(outcome) == FALSE

\* one of run_newsapi_ai .. run_tiingo on the stores as they are
run_collector(k, outcome, articles, pg_read, pg_write) ==
    LET nothing == [raised |-> run_collector_raises(outcome), unique |-> <<>>,
                    rows |-> table, content |-> files[CollectorFile[k]]]
        unique == deduplicate_articles(articles, pg_read).unique
        db == db_insert_articles_simple(unique, pg_write)
    IN  IF outcome # "fetched" \/ unique = <<>>
        THEN nothing
        ELSE [raised |-> FALSE, unique |-> unique, rows |-> db.rows,
              content |-> ExistingArticles(files[CollectorFile[k]]) \o unique]

\* the next collector function of run_collection is called and returns
RunCollector ==
    /\ op = "run_collection"
    /\ Len(arg) < Len(Collectors)
    /\ \E outcome \in CollectorOutcomes, articles \in CollectFetches,
          pg_read \in {"up", "down"}, pg_write \in {"up", "down"} :
          LET k == Len(arg) + 1
              r == run_collector(k, outcome, articles, pg_read, pg_write)
          IN  /\ table' = r.rows
              /\ files' = [files EXCEPT ![CollectorFile[k]] = r.content]
              /\ arg' = Append(arg, [collector |-> k, outcome |-> outcome,
                                     unique |-> r.unique])
              /\ op' = IF r.raised THEN "collection_raised" ELSE op
    /\ UNCHANGED <<mirror, env, ret, prev, Sched>>

\* the four collectors have returned: the totals are logged
RunCollectionEnd ==
    /\ op = "run_collection"
    /\ Len(arg) = Len(Collectors)
    /\ op' = "collection_done"
    /\ UNCHANGED <<table, mirror, files, arg, env, ret, prev, Sched>>

\* news_rss_collector.run, one round of `for source in sources`: the items
\* of a source that answers extend new_news, a failure is logged
RssSource ==
    /\ op = "rss_run"
    /\ Len(arg) < MaxSources
    /\ \E outcome \in SourceOutcomes, items \in CollectFetches :
          arg' = Append(arg, [collector |-> Len(arg) + 1, outcome |-> outcome,
                              unique |-> IF outcome = "fetched" THEN items ELSE <<>>])
    /\ UNCHANGED <<table, mirror, files, op, env, ret, prev, Sched>>

\* the items the sources of the run have handed over, in order
RECURSIVE NewNews(_)
NewNews(log) ==
    IF log = <<>> THEN <<>>
    ELSE NewNews(SubSeq(log, 1, Len(log) - 1)) \o log[Len(log)].unique

\* news_rss_collector.run after the loop: merge, remove_duplicates, rewrite
RssSave ==
    /\ op = "rss_run"
    /\ Len(arg) = MaxSources
    /\ \E written \in BOOLEAN :
          IF written
          THEN /\ files' = [files EXCEPT ![NEWS_FILE_RSS] =
                               remove_duplicates(ExistingArticles(@) \o NewNews(arg))]
               /\ op' = "rss_done"
          ELSE /\ files' = files
               /\ op' = "rss_raised"
    /\ UNCHANGED <<table, mirror, arg, env, ret, prev, Sched>>

\* a run of either family begins, on stores some earlier run may have filled
InitCollect ==
    /\ \E a \in PersistArticles : table \in {{}, {a}}
    /\ mirror = {}
    /\ files = [f \in CacheFiles |-> Missing]
    /\ op \in {"run_collection", "rss_run"}
    /\ arg = <<>>
    /\ env = [pg |-> "up"]
    /\ ret = [raised |-> FALSE]
    /\ prev = NoCall
    /\ SchedInit

NextCollect == RunCollector \/ RunCollectionEnd \/ RssSource \/ RssSave

SpecCollect == InitCollect /\ [][NextCollect]_vars

\* ------------------------------------------------ claims: one family run

\* a collector or a source has just been invoked and has ended
CollectorEnded == arg' # arg

\* the entry a step appends to the log of the run
LastEntry == arg'[Len(arg')]

\* C21: within one run the collectors are invoked one after another in a
\* fixed order; a collector that fails contributes no article and raises
\* nothing to the run; the run ends only after every collector has been
\* invoked, and what a collector fetched after a failure of an earlier one
\* is deduplicated and written to its file
C21_FailingCollectorIsolated ==
    /\ [][CollectorEnded =>
            /\ arg' = Append(arg, LastEntry)
            /\ LastEntry.collector = Len(arg) + 1]_vars
    /\ [][(CollectorEnded /\ LastEntry.outcome # "fetched") =>
            /\ LastEntry.unique = <<>>
            /\ table' = table /\ files' = files
            /\ op' = op]_vars
    /\ [](op \notin {"collection_raised"})
    /\ [](op = "collection_done" => Len(arg) = Len(Collectors))
    /\ [](op \in {"rss_done", "rss_raised"} => Len(arg) = MaxSources)
    /\ [][(CollectorEnded /\ op = "run_collection") =>
            \A i \in 1..Len(LastEntry.unique) :
                LastEntry.unique[i] \in ArticlesIn(files'[CollectorFile[Len(arg')]])]_vars
    /\ [][(op = "rss_run" /\ op' = "rss_done") =>
            \A k \in 1..Len(arg) : \A i \in 1..Len(arg[k].unique) :
                arg[k].unique[i] \in ArticlesIn(files'[NEWS_FILE_RSS])]_vars

\* a run whose first collector had no key and whose second collector's
\* article reached the table and its file
C21_Witness ==
    /\ op = "collection_done"
    /\ arg[1].outcome = "no_key"
    /\ arg[2].outcome = "fetched"
    /\ arg[2].unique # <<>>
    /\ arg[2].unique[1] \in table
    /\ arg[2].unique[1] \in ArticlesIn(files[CollectorFile[2]])

\* article a has been written to the table, the mirror and file c
InAllSinks(a, rows, docs, content) ==
    /\ a.url \in UrlsOf(rows)
    /\ a.url \in UrlsOf(docs)
    /\ a \in ArticlesIn(content)

\* C22: every run of every family, the feed family included, passes what it
\* fetched through the deduplication against the existing keys and then
\* through the writer: each article that survives is in the table, in the
\* mirror and in the family's cache file, and no feed item whose url or
\* normalized title the table already holds survives
C22_EveryRunWritesAllSinks ==
    /\ [][(CollectorEnded /\ op = "run_collection") =>
            \A i \in 1..Len(LastEntry.unique) :
                InAllSinks(LastEntry.unique[i], table', mirror',
                           files'[CollectorFile[Len(arg')]])]_vars
    /\ [][(op = "rss_run" /\ op' = "rss_done") =>
            \A a \in ArticlesIn(files'[NEWS_FILE_RSS]) :
                /\ InAllSinks(a, table', mirror', files'[NEWS_FILE_RSS])
                /\ a.url \notin UrlKeysOf(table)
                /\ normalize_title(a.title) \notin TitleKeysOf(table)]_vars

\* ------------------------------------------------- normalize_title alone

\* the titles a provider can hand over: any text, or no title at all
Strings == SeqsUpTo(Chars, MaxTitle) \cup {Null}

\* normalize_title(title)
Normalize ==
    /\ op = "idle"
    /\ op' = "normalize"
    /\ ret' = [value |-> normalize_title(arg), again |-> <<>>]
    /\ UNCHANGED <<table, mirror, files, arg, env, prev, Sched>>

\* normalize_title of what the first call returned
NormalizeAgain ==
    /\ op = "normalize"
    /\ op' = "normalize_again"
    /\ ret' = [ret EXCEPT !.again = normalize_title(ret.value)]
    /\ UNCHANGED <<table, mirror, files, arg, env, prev, Sched>>

InitNormalize ==
    /\ table = {}
    /\ mirror = {}
    /\ files = [f \in CacheFiles |-> Missing]
    /\ op = "idle"
    /\ arg \in Strings
    /\ env = [pg |-> "up"]
    /\ ret = [value |-> <<>>, again |-> <<>>]
    /\ prev = NoCall
    /\ SchedInit

NextNormalize == Normalize \/ NormalizeAgain

SpecNormalize == InitNormalize /\ [][NextNormalize]_vars

\* C23: normalize_title applied to its own result returns that result, for
\* every title; an empty or null title yields the empty string
C23_NormalizeIdempotent ==
    /\ op = "normalize_again" => ret.again = ret.value
    /\ (op # "idle" /\ arg \in {<<>>, Null}) => ret.value = <<>>

\* a title the first call changed, to something that is not empty
C23_Witness ==
    /\ op = "normalize_again"
    /\ ret.value # arg
    /\ ret.value # <<>>
    /\ \E i \in 1..Len(arg) : arg[i] = "!"
    /\ \E i \in 1..Len(arg) : arg[i] = " "

\* ------------------------------------------- the cache file read back

StampedArticles == {[url |-> "u1", title |-> <<"A">>, published_at |-> s] : s \in Stamps}

\* what a file can hold: JSON has no datetime
StoredArticles == {a \in StampedArticles : JsonSerializable(a)}

StampedBatches == SeqsUpTo(StampedArticles, MaxBatch)

FileWriters == {"news_postgres_utils", "news_db_utils"}

\* save_articles_to_json_simple(articles, filename) of either module
SaveToJson ==
    /\ op = "idle"
    /\ \E w \in FileWriters :
          LET js == IF w = "news_postgres_utils"
                    THEN save_articles_to_json_simple(arg, PersistFile, "ok")
                    ELSE db_save_articles_to_json_simple(arg, PersistFile, "ok")
          IN  /\ files' = [files EXCEPT ![PersistFile] = js.content]
              /\ ret' = [writer |-> w, count |-> js.count,
                         before |-> ExistingArticles(files[PersistFile]),
                         loaded |-> <<>>]
    /\ op' = "saved"
    /\ UNCHANGED <<table, mirror, arg, env, prev, Sched>>

\* the file is loaded again: json.load, nothing when it does not parse
Reload ==
    /\ op = "saved"
    /\ op' = "reloaded"
    /\ ret' = [ret EXCEPT !.loaded = ExistingArticles(files[PersistFile])]
    /\ UNCHANGED <<table, mirror, files, arg, env, prev, Sched>>

InitRoundTrip ==
    /\ table = {}
    /\ mirror = {}
    /\ \E c \in {Missing, Corrupt} \cup {<<a>> : a \in StoredArticles} :
          files = [f \in CacheFiles |-> IF f = PersistFile THEN c ELSE Missing]
    /\ op = "idle"
    /\ arg \in StampedBatches
    /\ env = [pg |-> "up"]
    /\ ret = [writer |-> "none", count |-> 0, before |-> <<>>, loaded |-> <<>>]
    /\ prev = NoCall
    /\ SchedInit

NextRoundTrip == SaveToJson \/ Reload

SpecRoundTrip == InitRoundTrip /\ [][NextRoundTrip]_vars

\* the loaded record equals the original in every field, the timestamp
\* after parsing the stored text
SameRecord(original, loaded) ==
    /\ loaded.url = original.url
    /\ loaded.title = original.title
    /\ IF original.published_at.kind = "datetime"
       THEN /\ loaded.published_at.kind = "text"
            /\ fromisoformat(loaded.published_at) = original.published_at
       ELSE loaded.published_at = original.published_at

\* C24: an article persisted to the cache file and loaded again is a record
\* equal to the original in every field, its published_at equal after
\* parsing the stored text; so are the articles the file held before the
\* write
C24_FileRoundTrip ==
    (op = "reloaded" /\ arg # <<>>) =>
        LET written == ret.before \o arg
        IN  /\ Len(ret.loaded) = Len(written)
            /\ \A i \in 1..Len(written) : SameRecord(written[i], ret.loaded[i])

\* ------------------------------------------------------ status reports

\* `auto_api_thread and auto_api_thread.is_alive()`: the left operand when
\* it is None, else the boolean
running(f) ==
    IF auto_thread[f] = 0 THEN "None"
    ELSE IF is_alive(f, auto_thread[f]) THEN "True" ELSE "False"

\* GET /api/auto/status, the entries of family f
api_auto_status(f) ==
    [running |-> running(f), new |-> auto_new_count[f],
     error_occurred |-> error_occurred[f]]

\* GET /api/stats, last_api_collection_time / last_rss_collection_time: the
\* time in ISO text, or None
get_stats(f) ==
    [last_collection_time |->
        IF last_collection_time[f] # 0 THEN [kind |-> "text", at |-> last_collection_time[f]]
        ELSE [kind |-> "none", at |-> 0]]

\* no worker was ever started for family f and no run of it was ever made:
\* the thread handle is still None (a start replaces it for good), no time of
\* a collection is recorded, no manual run is in progress and none has
\* ended (a manual run that has ended leaves the error flag set)
NeverStartedNeverRun(f) ==
    /\ auto_thread[f] = 0
    /\ last_collection_time[f] = 0
    /\ handler.family # f
    /\ ~error_occurred[f]

\* C25: for a family never started and never run the status reports
\* running as the boolean false and no time of a last run, with a new count
\* of 0 and the error flag false
C25_NeverStartedStatus ==
    \A f \in Families :
        NeverStartedNeverRun(f) =>
            /\ api_auto_status(f).running = "False"
            /\ get_stats(f).last_collection_time.kind = "none"
            /\ api_auto_status(f).new = 0
            /\ ~api_auto_status(f).error_occurred

\* ------------------------------------------------------- log_push

\* what a caller hands to log_push: a message alone, or a data_payload that
\* json.dumps accepts or rejects (a value that is not JSON serializable)
Payloads == {"message", "data", "unserializable_data"}

\* the calls made in the course of a run, each inside the try of its caller:
\* the periodic loops, the collect endpoints, the collect commands
PushCallers == {"auto_loop", "collect_endpoint", "command"}

\* log_push(msg, data_payload): without a queue the message is printed;
\* otherwise json.dumps of the entry, which raises TypeError on a value it
\* cannot serialize, and log_queue.put, which never blocks on the unbounded
\* queue.Queue() whether or not a client consumes it
log_push(queue_set, queue, payload) ==
    IF ~queue_set
    THEN [raised |-> FALSE, blocked |-> FALSE, queue |-> queue]
    ELSE IF payload = "unserializable_data"
    THEN [raised |-> TRUE, blocked |-> FALSE, queue |-> queue]
    ELSE [raised |-> FALSE, blocked |-> FALSE, queue |-> Append(queue, payload)]

\* a push made by a run of family f: an exception leaves the try of the
\* caller, whose except branch sets the error flag and, in a handler, answers
\* success = False
Push ==
    /\ op = "push"
    /\ Len(arg) < MaxQueue
    /\ \E f \in Families, caller \in PushCallers, payload \in Payloads :
          LET r == log_push(env.queue_set, arg, payload)
          IN  /\ arg' = r.queue
              /\ error_occurred' = [error_occurred EXCEPT ![f] = @ \/ r.raised]
              /\ ret' = [family |-> f, caller |-> caller, payload |-> payload,
                         blocked |-> r.blocked, completes |-> ~r.raised]
    /\ UNCHANGED <<table, mirror, files, op, env, prev, auto_thread, auto_stop_event,
                   auto_new_count, last_collection_time, worker, handler, pipe,
                   response>>

\* the next run begins: the error flag of its family is cleared
PushRunBegins ==
    /\ op = "push"
    /\ \E f \in Families :
          /\ error_occurred[f]
          /\ error_occurred' = [error_occurred EXCEPT ![f] = FALSE]
    /\ UNCHANGED <<table, mirror, files, op, arg, env, ret, prev, auto_thread,
                   auto_stop_event, auto_new_count, last_collection_time, worker,
                   handler, pipe, response>>

InitPush ==
    /\ table = {}
    /\ mirror = {}
    /\ files = [f \in CacheFiles |-> Missing]
    /\ op = "push"
    /\ arg = <<>>
    /\ env \in {[queue_set |-> b] : b \in BOOLEAN}
    /\ ret = [family |-> "none", caller |-> "none", payload |-> "none",
              blocked |-> FALSE, completes |-> TRUE]
    /\ prev = NoCall
    /\ SchedInit

NextPush == Push \/ PushRunBegins

SpecPush == InitPush /\ [][NextPush]_vars

\* a push has just been made
Pushed == ret' # ret \/ arg' # arg

\* C26: a push to the log queue never blocks and never fails the run that
\* makes it, whether the queue is set or not, consumed or not, and whatever
\* payload it is handed: the run goes on to its result, and the family's
\* error flag and counters are what they were
C26_PushNeverFailsTheRun ==
    [][Pushed =>
        /\ ~ret'.blocked
        /\ ret'.completes
        /\ error_occurred' = error_occurred
        /\ auto_new_count' = auto_new_count
        /\ last_collection_time' = last_collection_time]_vars

\* --------------------------------------- what deduplicate hands back

\* sub is what is left of full after some of its elements are removed
RECURSIVE IsSubsequence(_, _)
IsSubsequence(sub, full) ==
    IF sub = <<>> THEN TRUE
    ELSE IF full = <<>> THEN FALSE
    ELSE IF sub[1] = full[1] THEN IsSubsequence(Tail(sub), Tail(full))
    ELSE IsSubsequence(sub, Tail(full))

\* C27: deduplicate drops or keeps each candidate and nothing else: the
\* unique list is a subsequence of the input (the same articles in the same
\* relative order, none altered), len(unique) + duplicate_count is the number
\* of candidates, and an empty batch returns ([], 0).
C27_DedupKeepsOrDrops ==
    op = "dedup" =>
        /\ IsSubsequence(ret.unique, arg)
        /\ Len(ret.unique) + ret.duplicate_count = Len(arg)
        /\ arg = <<>> => (ret.unique = <<>> /\ ret.duplicate_count = 0)

\* a batch of two of which the first is dropped and the second, whose title
\* is not in normal form, is kept as it came
C27_Witness ==
    /\ op = "dedup" /\ Len(arg) = 2
    /\ ret.unique = <<arg[2]>> /\ ret.duplicate_count = 1
    /\ normalize_title(arg[2].title) # arg[2].title

\* ------------------------------------------ the relational insert alone

\* the two modules that define insert_articles_simple
InsertModules == {"news_postgres_utils", "news_db_utils"}

\* how an INSERT of the batch fails with a database error: on the client,
\* before the statement is sent (a value psycopg2 cannot adapt), or on the
\* server, which aborts the transaction
FailureKinds == {"client", "server"}

\* news_db_utils.insert_articles_simple when the statement at position
\* fail_at fails (0: none does). The except of the inner try logs and
\* continues. After a client-side error the other articles are inserted and
\* committed. After a server-side error every later statement fails in the
\* aborted transaction and commit() ends it as a rollback without raising;
\* inserted_count keeps what was counted before the failure
db_insert_articles_simple_failing(articles, pg, fail_at, kind) ==
    IF articles = <<>> \/ get_db_connection(pg) = "None"
    THEN [inserted_count |-> 0, rows |-> table]
    ELSE IF fail_at = 0
    THEN db_insert_articles_simple(articles, pg)
    ELSE IF kind = "client"
    THEN LET others == SubSeq(articles, 1, fail_at - 1)
                           \o SubSeq(articles, fail_at + 1, Len(articles))
             acc == InsertLoop(others, 1,
                        [rows |-> table, inserted_count |-> 0, inserted_articles |-> <<>>])
         IN  [inserted_count |-> acc.inserted_count, rows |-> acc.rows]
    ELSE LET acc == InsertLoop(SubSeq(articles, 1, fail_at - 1), 1,
                        [rows |-> table, inserted_count |-> 0, inserted_articles |-> <<>>])
         IN  [inserted_count |-> acc.inserted_count, rows |-> table]

\* one call of insert_articles_simple of either module. In
\* news_postgres_utils any psycopg.Error of the batch reaches the except of
\* the outer try: rollback, return 0, []
Insert ==
    /\ op = "idle"
    /\ \E articles \in PersistBatches, module \in InsertModules, pg \in {"up", "down"},
          fail_at \in 0..MaxBatch, kind \in FailureKinds :
        /\ fail_at <= Len(articles)
        /\ pg = "down" => fail_at = 0
        /\ fail_at = 0 => kind = "client"
        /\ IF module = "news_postgres_utils"
           THEN LET r == insert_articles_simple(articles, IF fail_at # 0 THEN "error" ELSE pg)
                IN  /\ table' = r.rows
                    /\ ret' = [returned |-> ~r.raised, has_list |-> TRUE,
                               db_count |-> r.inserted_count,
                               inserted_articles |-> r.inserted_articles,
                               rows_before |-> table]
           ELSE LET r == db_insert_articles_simple_failing(articles, pg, fail_at, kind)
                IN  /\ table' = r.rows
                    /\ ret' = [returned |-> TRUE, has_list |-> FALSE,
                               db_count |-> r.inserted_count,
                               inserted_articles |-> <<>>,
                               rows_before |-> table]
        /\ op' = "insert"
        /\ arg' = articles
        /\ env' = [module |-> module, pg |-> pg, fail_at |-> fail_at, kind |-> kind]
    /\ UNCHANGED <<mirror, files, prev, Sched>>

\* the caller has used the result
InsertReturn ==
    /\ op = "insert"
    /\ op' = "idle"
    /\ arg' = <<>>
    /\ env' = [pg |-> "up"]
    /\ ret' = [raised |-> FALSE]
    /\ UNCHANGED <<Stores, prev, Sched>>

InitInsert ==
    /\ table = {}
    /\ mirror = {}
    /\ files = [f \in CacheFiles |-> Missing]
    /\ op = "idle"
    /\ arg = <<>>
    /\ env = [pg |-> "up"]
    /\ ret = [raised |-> FALSE]
    /\ prev = NoCall
    /\ SchedInit

NextInsert == Insert \/ InsertReturn

SpecInsert == InitInsert /\ [][NextInsert]_vars

\* C28: the relational insert reports exactly what it committed: when
\* insert_articles_simple has returned, dbCount is the growth of the table's
\* row count and, where a list is returned, its length, the list being a
\* subsequence of the batch; and when an insert of the batch failed with a
\* database error the whole batch is rolled back and the count is 0, the
\* list empty.
C28_InsertReportsWhatItCommitted ==
    (op = "insert" /\ ret.returned) =>
        /\ ret.db_count = Cardinality(table) - Cardinality(ret.rows_before)
        /\ ret.has_list =>
              /\ ret.db_count = Len(ret.inserted_articles)
              /\ IsSubsequence(ret.inserted_articles, arg)
        /\ env.fail_at # 0 =>
              /\ table = ret.rows_before
              /\ ret.db_count = 0
              /\ ret.inserted_articles = <<>>

\* the same for the calls of news_postgres_utils alone
InsertOfPostgresUtilsReportsWhatItCommitted ==
    (op = "insert" /\ env.module = "news_postgres_utils") => C28_InsertReportsWhatItCommitted

\* ------------------------------------------------- the reset of a counter

\* the "type" a reset request carries
ResetTypes == {"api", "rss", "other"}

\* POST /api/auto/reset_new: the counter of the named family is set to 0.
\* The handler runs on the event loop, which a manual collection occupies
\* until it answers
api_auto_reset_new(type) ==
    /\ handler.pc = "idle"
    /\ auto_new_count' = [f \in Families |-> IF f = type THEN 0 ELSE auto_new_count[f]]
    /\ response' = [request |-> "reset_new", success |-> TRUE]
    /\ UNCHANGED <<table, mirror, files, op, arg, env, ret, prev, auto_thread,
                   auto_stop_event, last_collection_time, error_occurred, worker,
                   handler, pipe>>

Reset == \E type \in ResetTypes : api_auto_reset_new(type)

\* periodic runs, manual runs and reset requests interleaved
NextReset == NextRuns \/ Reset

SpecReset == InitRuns /\ [][NextReset]_vars

\* the reset request for family f is answered
ResetOf(f) ==
    /\ response'.request = "reset_new"
    /\ handler' = handler /\ pipe' = pipe /\ worker' = worker
    /\ auto_new_count'[f] = 0
    /\ \E g \in Families \ {f} : auto_new_count'[g] = auto_new_count[g]

\* the run of family f made by runner r ends, its pipeline having completed
RunEndsCompleted(f, r) ==
    /\ pipe[r].stage = "returned"
    /\ FamilyOf(r) = f
    /\ IF r = EventLoop THEN ManualEnds ELSE IterationEndsCompleted(f, r[2])

\* C29: under any interleaving of periodic iterations, manual runs and reset
\* requests the new count of a family is the sum of the new-article counts
\* of its runs completed since the last reset: a completed run adds its
\* number of new articles, a reset of the family sets the count to 0 and
\* leaves the other family's count alone, and no other step changes it
C29_CountIsSumSinceReset ==
    [][\A f \in Families :
        /\ \A r \in Runners : RunEndsCompleted(f, r) =>
               auto_new_count'[f] = auto_new_count[f] + pipe[r].inserted
        /\ auto_new_count'[f] # auto_new_count[f] =>
               \/ \E r \in Runners : RunEndsCompleted(f, r)
               \/ ResetOf(f)]_vars

\* ------------------------------------------------- a start after a stop

\* the worker threads of family f that are alive after the step
AliveWorkersNext(f) == {t \in Threads : worker'[f][t].pc # "off"}

\* a start request is answered: one family's, or the one for both
StartRequest(F) == IF F = Families THEN StartBoth ELSE \E f \in F : Start(f)

\* a start request for f has been refused while f's stop was pending and
\* f's worker had not yet exited
RefusedWhileStopping(f) ==
    /\ response = [request |-> "start", success |-> FALSE]
    /\ auto_stop_event[f]
    /\ AliveWorkers(f) # {}

\* C30: a start request returns true if and only if it creates a new
\* worker; the stop event of a family is never cleared while a worker of
\* that family is alive; a start issued after a stop and before the old
\* worker has exited returns false and leaves the stop pending, and the
\* family ends up not running
C30_StartNeverCancelsPendingStop ==
    /\ [][\A F \in {{"api"}, {"rss"}, Families} :
            StartRequest(F) =>
                (response'.success <=>
                    \E f \in F : AliveWorkersNext(f) \ AliveWorkers(f) # {})]_vars
    /\ [][\A f \in Families :
            (auto_stop_event[f] /\ ~auto_stop_event'[f]) => AliveWorkers(f) = {}]_vars
    /\ [][\A f \in Families :
            (Start(f) /\ auto_stop_event[f] /\ AliveWorkers(f) # {}) =>
                /\ ~response'.success
                /\ auto_stop_event'[f]
                /\ AliveWorkersNext(f) = AliveWorkers(f)]_vars
    /\ \A f \in Families : RefusedWhileStopping(f) ~> (AliveWorkers(f) = {})

\* the only family ever started was stopped, a start was refused while its
\* worker was still alive, and the worker has since exited
C30_Witness ==
    \E f \in Families :
        /\ response = [request |-> "start", success |-> FALSE]
        /\ auto_stop_event[f]
        /\ auto_thread[f] # 0 /\ AliveWorkers(f) = {}
        /\ \A g \in Families \ {f} : auto_thread[g] = 0

====
